---- MODULE Spec2Model ----
(***************************************************************************)
(* Model of the appointments page (src/react-app/pages/Appointments -      *)
(* Copia.tsx): the form state of the create/edit modal, the end-time       *)
(* watcher effect, the conflict check of onSubmit, the asynchronous store  *)
(* calls it issues and the delete confirmation flow.                       *)
(*                                                                         *)
(* Representation.                                                         *)
(*  - An instant (a moment object, a stored timestamp) is an integer       *)
(*    number of seconds.  A form date string 'YYYY-MM-DDTHH:mm' is an      *)
(*    integer number of minutes; '' is NoDate.  Moment parses a form       *)
(*    string, Format prints an instant and drops its seconds.              *)
(*  - A stored price is an integer of minor units.  A form price (a JS     *)
(*    number of major units) is an integer of thousandths of a major unit, *)
(*    so that Math.round(price * 100) has something to round.              *)
(*  - An id of 0 stands for undefined/null; NoAppointment stands for null. *)
(*  - The form fields client_name, professional, service and attended are  *)
(*    copied through onSubmit unread and are left out.                     *)
(***************************************************************************)
EXTENDS Integers, Sequences, FiniteSets, TLC

\* ------------------------------------------------------------------ bounds
\* field changes made plus store calls issued (addAppointment,
\* updateAppointment, deleteAppointment) in one behaviour
MaxSteps == 4

\* --------------------------------------------------------- program constants
SecondsPerMinute == 60
DefaultDuration == 30
MinorPerMajor == 100

\* thousandths of a major unit per minor unit (the form price representation)
MilliPerMinor == 1000 \div MinorPerMajor

NoDate == -1
NoPrice == -999999
NoAppointment ==
  [id |-> 0, client_id |-> 0, professional_id |-> 0, service_id |-> 0,
   price |-> 0, appointment_date |-> 0, end_date |-> 0]

\* ------------------------------------------------- data of the remote store
\* what the four fetches deliver
RemoteClients == <<[id |-> 1]>>
RemoteProfessionals == <<[id |-> 1], [id |-> 2]>>
RemoteServices ==
  <<[id |-> 1, price |-> 5000, duration |-> 30],
    [id |-> 2, price |-> 3000, duration |-> 15]>>

\* 10:00:00-10:15:00, professional 1
ApptA ==
  [id |-> 1, client_id |-> 1, professional_id |-> 1, service_id |-> 2,
   price |-> 3000, appointment_date |-> 36000, end_date |-> 36900]
\* 10:15:00-10:50:30, professional 1: touches ApptA, its end carries seconds
\* and is not start + duration, its price is not the service's
ApptB ==
  [id |-> 2, client_id |-> 1, professional_id |-> 1, service_id |-> 1,
   price |-> 2500, appointment_date |-> 36900, end_date |-> 39030]
\* 10:00:20-10:30:00, professional 2, of a service that no longer exists
ApptC ==
  [id |-> 3, client_id |-> 1, professional_id |-> 2, service_id |-> 3,
   price |-> 4000, appointment_date |-> 36020, end_date |-> 37800]

RemoteAppointments == <<ApptB, ApptC, ApptA>>
\* the id the remote store assigns to the next appointment created
FirstFreeId == Len(RemoteAppointments) + 1

\* ------------------------------------------------------- inputs of the user
\* what the user types into 'Inicio' / 'Fim' (datetime-local, minutes)
Slots == {615, 630}
EndSlots == {615}
\* what the user types into 'Preco' (thousandths of a major unit)
PriceInputs == {-15}
\* the day/instant the calendar shows when 'Agendar' is pressed
CurrentDates == {37830}

Resources == {"clients", "professionals", "services", "appointments"}

VARIABLES
  user,                \* useSupabaseAuth().user is set
  loading,             \* store: loading flags of the four fetches
  fetch,               \* status of each fetch: "idle", "pending", "done"
  clients, professionals, services, appointments,   \* store collections
  isModalOpen, editingAppointment,
  isDeleteModalOpen, appointmentToDelete,
  form,                \* react-hook-form field values
  pending,             \* store calls awaited by onSubmit/handleDeleteConfirm
  nextId,              \* next id the remote store assigns
  steps,               \* field changes made and store calls issued so far
  toast                \* toast shown by the last handler step

vars ==
  <<user, loading, fetch, clients, professionals, services, appointments,
    isModalOpen, editingAppointment, isDeleteModalOpen, appointmentToDelete,
    form, pending, nextId, steps, toast>>

\* ------------------------------------------------------------------ helpers
\* moment('YYYY-MM-DDTHH:mm'): the instant of a form date string
Moment(s) == s * SecondsPerMinute

\* moment(x).format('YYYY-MM-DDTHH:mm'): the seconds are dropped
Format(t) == t \div SecondsPerMinute

\* moment(x).add(n, 'minutes')
AddMinutes(t, n) == t + n * SecondsPerMinute

\* stored minor units -> form price: x / 100
ToMajor(minor) == minor * MilliPerMinor

\* form price -> stored minor units: Math.round(Number(price) * 100)
ToMinor(price) == (price + (MilliPerMinor \div 2)) \div MilliPerMinor

\* seq.find(x => x.id === id), from index i on: the index of the first
\* element with that id, 0 if there is none
RECURSIVE FindIdFrom(_, _, _)
FindIdFrom(seq, id, i) ==
  IF i > Len(seq) THEN 0
  ELSE IF seq[i].id = id THEN i
  ELSE FindIdFrom(seq, id, i + 1)

FindById(seq, id) == FindIdFrom(seq, id, 1)

defaultFormValues ==
  [client_id |-> 0, professional_id |-> 0, service_id |-> 0,
   price |-> NoPrice, appointment_date |-> NoDate, end_date |-> NoDate]

\* fault variant of DeriveEndTime: the duration is added as seconds
DeriveEndTimeSeconds(start, duration) == Format(Moment(start) + duration)

\* the end time derived from a start string and a service duration
DeriveEndTime(start, duration) == Format(AddMinutes(Moment(start), duration))

\* body of the service/start watcher effect
WatcherBody(f, svcs) ==
  IF f.service_id # 0 /\ Len(svcs) > 0
  THEN LET i == FindById(svcs, f.service_id)
       IN IF i # 0
          THEN LET f1 == [f EXCEPT !.price = ToMajor(svcs[i].price)]
               IN IF f.appointment_date # NoDate
                  THEN [f1 EXCEPT !.end_date =
                          DeriveEndTime(f.appointment_date, svcs[i].duration)]
                  ELSE f1
          ELSE f
  ELSE f

\* fault variant of WatcherEffect: watchedStartDate is missing from the
\* dependency list
WatcherEffectServiceOnly(oldForm, oldSvcs, newForm, newSvcs) ==
  IF \/ newForm.service_id # oldForm.service_id
     \/ newSvcs # oldSvcs
  THEN WatcherBody(newForm, newSvcs)
  ELSE newForm

\* the effect runs after a render in which one of its dependencies changed
WatcherEffect(oldForm, oldSvcs, newForm, newSvcs) ==
  IF \/ newForm.service_id # oldForm.service_id
     \/ newForm.appointment_date # oldForm.appointment_date
     \/ newSvcs # oldSvcs
  THEN WatcherBody(newForm, newSvcs)
  ELSE newForm

\* fault variant of Renders: loading.appointments is not consulted
RendersIgnoringAppointments ==
  ~(loading["clients"] \/ loading["professionals"] \/ loading["services"])

\* the page shows its content (not the spinner)
Renders ==
  ~(loading["clients"] \/ loading["professionals"] \/ loading["services"]
      \/ loading["appointments"])

\* fault variant of Conflicts: the candidate's start is compared with the
\* existing start instead of the existing end
ConflictsWrongField(app, editing, data) ==
  IF editing # NoAppointment /\ app.id = editing.id THEN FALSE
  ELSE IF app.professional_id # data.professional_id THEN FALSE
  ELSE /\ Moment(data.appointment_date) < app.appointment_date
       /\ Moment(data.end_date) > app.appointment_date

\* fault variant of Conflicts: isSameOrBefore/isSameOrAfter (closed intervals)
ConflictsClosed(app, editing, data) ==
  IF editing # NoAppointment /\ app.id = editing.id THEN FALSE
  ELSE IF app.professional_id # data.professional_id THEN FALSE
  ELSE /\ Moment(data.appointment_date) <= app.end_date
       /\ Moment(data.end_date) >= app.appointment_date

\* fault variant of Conflicts: the professional is not compared
ConflictsAnyProfessional(app, editing, data) ==
  IF editing # NoAppointment /\ app.id = editing.id THEN FALSE
  ELSE /\ Moment(data.appointment_date) < app.end_date
       /\ Moment(data.end_date) > app.appointment_date

\* fault variant of Conflicts: the edited appointment is not skipped
ConflictsNoExclusion(app, editing, data) ==
  IF app.professional_id # data.professional_id THEN FALSE
  ELSE /\ Moment(data.appointment_date) < app.end_date
       /\ Moment(data.end_date) > app.appointment_date

\* fault variant of Conflicts: the form's professional_id is compared without
\* Number(), so that !== holds for every appointment
ConflictsUnconvertedId(app, editing, data) ==
  IF editing # NoAppointment /\ app.id = editing.id THEN FALSE
  ELSE FALSE

\* the predicate of appointments.find in onSubmit
Conflicts(app, editing, data) ==
  IF editing # NoAppointment /\ app.id = editing.id THEN FALSE
  ELSE IF app.professional_id # data.professional_id THEN FALSE
  ELSE /\ Moment(data.appointment_date) < app.end_date
       /\ Moment(data.end_date) > app.appointment_date

\* appointments.find(...) from index i on: the index of the first appointment
\* the predicate accepts, 0 if there is none
RECURSIVE FindConflictFrom(_, _, _, _)
FindConflictFrom(appts, editing, data, i) ==
  IF i > Len(appts) THEN 0
  ELSE IF Conflicts(appts[i], editing, data) THEN i
  ELSE FindConflictFrom(appts, editing, data, i + 1)

\* fault variant of conflictingAppointment: findLast instead of find
conflictingAppointmentLast(appts, editing, data) ==
  LET S == {i \in 1..Len(appts) : Conflicts(appts[i], editing, data)}
  IN IF S = {} THEN 0 ELSE CHOOSE i \in S : \A j \in S : j <= i

\* index of conflictingAppointment in the collection, 0 when undefined
conflictingAppointment(appts, editing, data) ==
  FindConflictFrom(appts, editing, data, 1)

\* zodResolver(AppointmentFormSchema): handleSubmit calls onSubmit only with
\* data that passes it
Resolver(data) ==
  /\ data.client_id # 0
  /\ data.professional_id # 0
  /\ data.service_id # 0
  /\ data.price # NoPrice /\ data.price >= 0
  /\ data.appointment_date # NoDate
  /\ data.end_date # NoDate
  /\ data.appointment_date < data.end_date

\* fault variant of appointmentData: end_date is taken from appointment_date
appointmentDataEndFromStart(data) ==
  [id |-> 0,
   client_id |-> data.client_id,
   professional_id |-> data.professional_id,
   service_id |-> data.service_id,
   price |-> ToMinor(data.price),
   appointment_date |-> Moment(data.appointment_date),
   end_date |-> Moment(data.appointment_date)]

\* appointmentData of onSubmit
appointmentData(data) ==
  [id |-> 0,
   client_id |-> data.client_id,
   professional_id |-> data.professional_id,
   service_id |-> data.service_id,
   price |-> ToMinor(data.price),
   appointment_date |-> Moment(data.appointment_date),
   end_date |-> Moment(data.end_date)]

\* { ...editingAppointment, ...appointmentData }
MergeEditing(editing, appData) == [appData EXCEPT !.id = editing.id]

HasIdIn(seq, id) == \E i \in 1..Len(seq) : seq[i].id = id

RemoveAt(seq, i) == SubSeq(seq, 1, i - 1) \o SubSeq(seq, i + 1, Len(seq))

\* store: the collection after updateAppointment(app) succeeded
StoreUpdate(appts, app) ==
  [i \in 1..Len(appts) |-> IF appts[i].id = app.id THEN app ELSE appts[i]]

\* store: the collection after addAppointment(app) succeeded
StoreAdd(appts, app, id) == Append(appts, [app EXCEPT !.id = id])

\* store: the collection after deleteAppointment(id) succeeded
StoreDelete(appts, id) == SelectSeq(appts, LAMBDA a : a.id # id)

\* --------------------------------------------------------------------- Init
Init ==
  /\ user \in BOOLEAN
  /\ \E l \in BOOLEAN : loading = [r \in Resources |-> l \/ user]
  /\ fetch = [r \in Resources |-> IF user THEN "pending" ELSE "idle"]
  /\ clients = <<>> /\ professionals = <<>> /\ services = <<>>
  /\ appointments = <<>>
  /\ isModalOpen = FALSE /\ editingAppointment = NoAppointment
  /\ isDeleteModalOpen = FALSE /\ appointmentToDelete = NoAppointment
  /\ form = defaultFormValues
  /\ pending = <<>>
  /\ nextId = FirstFreeId
  /\ steps = 0
  /\ toast = "none"

\* ------------------------------------------------------------------ actions
\* the auth provider delivers the user; the fetch effect issues the four fetches
SignIn ==
  /\ ~user
  /\ user' = TRUE
  /\ fetch' = [r \in Resources |-> "pending"]
  /\ loading' = [r \in Resources |-> TRUE]
  /\ toast' = "none"
  /\ UNCHANGED <<clients, professionals, services, appointments, isModalOpen,
                 editingAppointment, isDeleteModalOpen, appointmentToDelete,
                 form, pending, nextId, steps>>

FetchDone(r) ==
  /\ fetch[r] = "pending"
  /\ fetch' = [fetch EXCEPT ![r] = "done"]
  /\ loading' = [loading EXCEPT ![r] = FALSE]
  /\ clients' = IF r = "clients" THEN RemoteClients ELSE clients
  /\ professionals' =
       IF r = "professionals" THEN RemoteProfessionals ELSE professionals
  /\ services' = IF r = "services" THEN RemoteServices ELSE services
  /\ appointments' =
       IF r = "appointments" THEN RemoteAppointments ELSE appointments
  /\ form' = WatcherEffect(form, services, form, services')
  /\ UNCHANGED <<user, isModalOpen, editingAppointment, isDeleteModalOpen,
                 appointmentToDelete, pending, nextId, steps,
                 toast>>

\* handleOpenModal(appointment): a click on the card of appointments[i]
HandleOpenModalEdit(i) ==
  /\ Renders /\ ~isModalOpen /\ ~isDeleteModalOpen
  /\ i \in 1..Len(appointments)
  /\ LET appointment == appointments[i]
         newForm ==
           [client_id |-> appointment.client_id,
            professional_id |-> appointment.professional_id,
            service_id |-> appointment.service_id,
            price |-> ToMajor(appointment.price),
            appointment_date |-> Format(appointment.appointment_date),
            end_date |-> Format(appointment.end_date)]
     IN /\ editingAppointment' = appointment
        /\ form' = WatcherEffect(form, services, newForm, services)
  /\ isModalOpen' = TRUE
  /\ toast' = "none"
  /\ UNCHANGED <<user, loading, fetch, clients, professionals, services,
                 appointments, isDeleteModalOpen, appointmentToDelete,
                 pending, nextId, steps>>

\* handleOpenModal(): 'Agendar', with the date and professional filter shown
HandleOpenModalNew(initialDate, selectedProfessionalId) ==
  /\ Renders /\ ~isModalOpen /\ ~isDeleteModalOpen
  /\ \/ selectedProfessionalId = 0
     \/ HasIdIn(professionals, selectedProfessionalId)
  /\ LET newForm ==
           [defaultFormValues EXCEPT
              !.appointment_date = Format(initialDate),
              !.end_date = Format(AddMinutes(initialDate, DefaultDuration)),
              !.professional_id = selectedProfessionalId]
     IN form' = WatcherEffect(form, services, newForm, services)
  /\ editingAppointment' = NoAppointment
  /\ isModalOpen' = TRUE
  /\ toast' = "none"
  /\ UNCHANGED <<user, loading, fetch, clients, professionals, services,
                 appointments, isDeleteModalOpen, appointmentToDelete,
                 pending, nextId, steps>>

handleCloseModal ==
  /\ Renders /\ isModalOpen /\ ~isDeleteModalOpen
  /\ isModalOpen' = FALSE
  /\ editingAppointment' = NoAppointment
  /\ form' = WatcherEffect(form, services, defaultFormValues, services)
  /\ toast' = "none"
  /\ UNCHANGED <<user, loading, fetch, clients, professionals, services,
                 appointments, isDeleteModalOpen, appointmentToDelete,
                 pending, nextId, steps>>

\* the form can be edited
FormShown == Renders /\ isModalOpen /\ ~isDeleteModalOpen

\* a field change: the new values, then the watcher effect
ChangeForm(newForm) ==
  /\ FormShown
  /\ newForm # form
  /\ steps < MaxSteps
  /\ steps' = steps + 1
  /\ form' = WatcherEffect(form, services, newForm, services)
  /\ toast' = "none"
  /\ UNCHANGED <<user, loading, fetch, clients, professionals, services,
                 appointments, isModalOpen, editingAppointment,
                 isDeleteModalOpen, appointmentToDelete, pending, nextId>>

SetClient(i) ==
  /\ i \in 1..Len(clients)
  /\ ChangeForm([form EXCEPT !.client_id = clients[i].id])

SetProfessional(i) ==
  /\ i \in 1..Len(professionals)
  /\ ChangeForm([form EXCEPT !.professional_id = professionals[i].id])

SetService(i) ==
  /\ i \in 1..Len(services)
  /\ ChangeForm([form EXCEPT !.service_id = services[i].id])

SetPrice(p) == ChangeForm([form EXCEPT !.price = p])

SetStart(s) == ChangeForm([form EXCEPT !.appointment_date = s])

SetEnd(s) == ChangeForm([form EXCEPT !.end_date = s])

\* handleSubmit(onSubmit)
onSubmit ==
  /\ FormShown
  /\ Resolver(form)
  /\ LET data == form
         c == conflictingAppointment(appointments, editingAppointment, data)
     IN IF ~user
        THEN /\ toast' = "none"
             /\ UNCHANGED <<pending, steps>>
        ELSE IF c # 0
        THEN /\ toast' = "conflict"
             /\ UNCHANGED <<pending, steps>>
        ELSE IF \/ FindById(clients, data.client_id) = 0
                \/ FindById(professionals, data.professional_id) = 0
                \/ FindById(services, data.service_id) = 0
        THEN /\ toast' = "invalid"
             /\ UNCHANGED <<pending, steps>>
        ELSE /\ steps < MaxSteps
             /\ steps' = steps + 1
             /\ toast' = "none"
             /\ IF editingAppointment # NoAppointment
                THEN pending' = Append(pending,
                       [op |-> "update",
                        arg |-> MergeEditing(editingAppointment,
                                             appointmentData(data))])
                ELSE pending' = Append(pending,
                       [op |-> "add", arg |-> appointmentData(data)])
  /\ UNCHANGED <<user, loading, fetch, clients, professionals, services,
                 appointments, isModalOpen, editingAppointment,
                 isDeleteModalOpen, appointmentToDelete, form, nextId>>

\* the awaited addAppointment/updateAppointment settles
SaveDone(i, ok) ==
  /\ i \in 1..Len(pending)
  /\ pending[i].op \in {"add", "update"}
  /\ pending' = RemoveAt(pending, i)
  /\ IF ok
     THEN /\ IF pending[i].op = "update"
             THEN /\ appointments' = StoreUpdate(appointments, pending[i].arg)
                  /\ toast' = "updated"
                  /\ nextId' = nextId
             ELSE /\ appointments' = StoreAdd(appointments, pending[i].arg, nextId)
                  /\ toast' = "created"
                  /\ nextId' = nextId + 1
          /\ isModalOpen' = FALSE
          /\ editingAppointment' = NoAppointment
          /\ form' = WatcherEffect(form, services, defaultFormValues, services)
     ELSE /\ toast' = "savefail"
          /\ UNCHANGED <<appointments, nextId, isModalOpen, editingAppointment,
                         form>>
  /\ UNCHANGED <<user, loading, fetch, clients, professionals, services,
                 isDeleteModalOpen, appointmentToDelete, steps>>

\* 'Excluir' in the edit modal
handleDeleteClick ==
  /\ FormShown
  /\ editingAppointment # NoAppointment
  /\ appointmentToDelete' = editingAppointment
  /\ isDeleteModalOpen' = TRUE
  /\ toast' = "none"
  /\ UNCHANGED <<user, loading, fetch, clients, professionals, services,
                 appointments, isModalOpen, editingAppointment, form, pending,
                 nextId, steps>>

\* ConfirmationModal onClose
DeleteModalClose ==
  /\ Renders /\ isDeleteModalOpen
  /\ isDeleteModalOpen' = FALSE
  /\ toast' = "none"
  /\ UNCHANGED <<user, loading, fetch, clients, professionals, services,
                 appointments, isModalOpen, editingAppointment,
                 appointmentToDelete, form, pending, nextId, steps>>

handleDeleteConfirm ==
  /\ Renders /\ isDeleteModalOpen
  /\ user /\ appointmentToDelete # NoAppointment
  /\ steps < MaxSteps
  /\ steps' = steps + 1
  /\ pending' = Append(pending, [op |-> "delete", arg |-> appointmentToDelete])
  /\ toast' = "none"
  /\ UNCHANGED <<user, loading, fetch, clients, professionals, services,
                 appointments, isModalOpen, editingAppointment,
                 isDeleteModalOpen, appointmentToDelete, form, nextId>>

\* the awaited deleteAppointment settles
DeleteDone(i, ok) ==
  /\ i \in 1..Len(pending)
  /\ pending[i].op = "delete"
  /\ pending' = RemoveAt(pending, i)
  /\ IF ok
     THEN /\ appointments' = StoreDelete(appointments, pending[i].arg.id)
          /\ toast' = "removed"
          /\ isDeleteModalOpen' = FALSE
          /\ appointmentToDelete' = NoAppointment
     ELSE /\ toast' = "removefail"
          /\ UNCHANGED <<appointments, isDeleteModalOpen, appointmentToDelete>>
  /\ UNCHANGED <<user, loading, fetch, clients, professionals, services,
                 isModalOpen, editingAppointment, form, nextId, steps>>

Next ==
  \/ SignIn
  \/ \E r \in Resources : FetchDone(r)
  \/ \E i \in 1..Len(appointments) : HandleOpenModalEdit(i)
  \/ \E d \in CurrentDates, p \in 0..Len(professionals) :
       HandleOpenModalNew(d, p)
  \/ handleCloseModal
  \/ \E i \in 1..Len(clients) : SetClient(i)
  \/ \E i \in 1..Len(professionals) : SetProfessional(i)
  \/ \E i \in 1..Len(services) : SetService(i)
  \/ \E p \in PriceInputs : SetPrice(p)
  \/ \E s \in Slots : SetStart(s)
  \/ \E s \in EndSlots : SetEnd(s)
  \/ onSubmit
  \/ \E i \in 1..Len(pending), ok \in BOOLEAN : SaveDone(i, ok)
  \/ handleDeleteClick
  \/ DeleteModalClose
  \/ handleDeleteConfirm
  \/ \E i \in 1..Len(pending), ok \in BOOLEAN : DeleteDone(i, ok)

Spec == Init /\ [][Next]_vars

\* ============================================================== properties
\* the candidate and an existing appointment overlap as open intervals
Overlaps(data, E) ==
  /\ Moment(data.appointment_date) < E.end_date
  /\ Moment(data.end_date) > E.appointment_date

\* E is the record of the appointment being edited
IsEdited(E) == editingAppointment # NoAppointment /\ E.id = editingAppointment.id

\* a submit in this state reaches the conflict check of onSubmit
Submittable == FormShown /\ Resolver(form) /\ user

\* what the conflict check of onSubmit finds in this state
Found == conflictingAppointment(appointments, editingAppointment, form)

SameProfessional(E) == E.professional_id = form.professional_id

\* C1 (as amended): whenever a submit reaches the conflict check, every
\* appointment of the collection that has the candidate's professional,
\* overlaps the candidate (candidate.start < E.end and candidate.end > E.start)
\* and is not the record being edited makes the check find a conflict.
C1_OverlapIsConflict ==
  Submittable =>
    \A i \in 1..Len(appointments) :
      (/\ SameProfessional(appointments[i])
       /\ Overlaps(form, appointments[i])
       /\ ~IsEdited(appointments[i])) => Found # 0

C1_Witness ==
  /\ Submittable
  /\ toast = "conflict"
  /\ \E i \in 1..Len(appointments) :
       /\ SameProfessional(appointments[i])
       /\ Overlaps(form, appointments[i])
       /\ ~IsEdited(appointments[i])

\* C1 as stated: every overlapping appointment of the same professional,
\* the edited appointment's own record included, makes the check find a conflict.
C1_Original ==
  Submittable =>
    \A i \in 1..Len(appointments) :
      (/\ SameProfessional(appointments[i])
       /\ Overlaps(form, appointments[i])) => Found # 0

\* C2: an appointment of the candidate's professional that ends at or before
\* the candidate's start, or starts at or after the candidate's end, is never
\* the conflicting appointment; touching at an endpoint is no conflict.
C2_DisjointIsNoConflict ==
  Submittable =>
    \A i \in 1..Len(appointments) :
      (/\ SameProfessional(appointments[i])
       /\ \/ Moment(form.end_date) <= appointments[i].appointment_date
          \/ appointments[i].end_date <= Moment(form.appointment_date))
      => (Found # i /\ ~Conflicts(appointments[i], editingAppointment, form))

C2_Witness ==
  /\ Submittable
  /\ Found = 0
  /\ \E i \in 1..Len(appointments) :
       /\ SameProfessional(appointments[i])
       /\ ~IsEdited(appointments[i])
       /\ appointments[i].end_date = Moment(form.appointment_date)

\* C3: an appointment of another professional is never the conflicting
\* appointment, whatever the two intervals are.
C3_OtherProfessionalIsNoConflict ==
  Submittable =>
    \A i \in 1..Len(appointments) :
      ~SameProfessional(appointments[i])
      => (Found # i /\ ~Conflicts(appointments[i], editingAppointment, form))

C3_Witness ==
  /\ Submittable
  /\ Found = 0
  /\ \E i \in 1..Len(appointments) :
       /\ ~SameProfessional(appointments[i])
       /\ ~IsEdited(appointments[i])
       /\ Overlaps(form, appointments[i])

\* C4: while an appointment is edited, the check finds no conflict when the
\* only overlapping appointments of the candidate's professional are the
\* records carrying the edited appointment's id.
C4_NoSelfConflict ==
  (Submittable /\ editingAppointment # NoAppointment) =>
    ((\A i \in 1..Len(appointments) :
        (SameProfessional(appointments[i]) /\ Overlaps(form, appointments[i]))
        => appointments[i].id = editingAppointment.id)
     => Found = 0)

C4_Witness ==
  /\ Submittable
  /\ editingAppointment # NoAppointment
  /\ Found = 0
  /\ \E i \in 1..Len(appointments) :
       /\ appointments[i].id = editingAppointment.id
       /\ SameProfessional(appointments[i])
       /\ Overlaps(form, appointments[i])

\* C5: a submit that meets an overlapping appointment of the candidate's
\* professional other than the edited one shows the conflict message, issues
\* no store call, and leaves the collection, the modal, editingAppointment and
\* the form values as they were.
C5_ConflictAbortsSave ==
  [][(/\ onSubmit
      /\ user
      /\ \E i \in 1..Len(appointments) :
           /\ SameProfessional(appointments[i])
           /\ Overlaps(form, appointments[i])
           /\ ~IsEdited(appointments[i]))
     => (/\ toast' = "conflict"
         /\ pending' = pending
         /\ appointments' = appointments
         /\ isModalOpen /\ isModalOpen'
         /\ editingAppointment' = editingAppointment
         /\ form' = form)]_vars

C5_Witness ==
  /\ toast = "conflict"
  /\ isModalOpen
  /\ Resolver(form)
  /\ Found # 0

\* C6: for the start shown in the form and every service, the derived end
\* time is the start plus the service's duration in minutes, and running the
\* watcher a second time changes nothing.
C6_DerivedEndTime ==
  (isModalOpen /\ form.appointment_date # NoDate) =>
    /\ \A i \in 1..Len(services) :
         DeriveEndTime(form.appointment_date, services[i].duration)
           - form.appointment_date = services[i].duration
    /\ WatcherBody(WatcherBody(form, services), services)
         = WatcherBody(form, services)

C6_Witness ==
  /\ isModalOpen
  /\ form.appointment_date # NoDate
  /\ \E i \in 1..Len(services) :
       /\ services[i].id = form.service_id
       /\ form.end_date = form.appointment_date + services[i].duration

ValidAppointment(a) == a.appointment_date < a.end_date /\ a.price >= 0

C8_FirstConflictReturned ==
  Submittable =>
    LET Hit(i) == /\ SameProfessional(appointments[i])
                  /\ Overlaps(form, appointments[i])
                  /\ ~IsEdited(appointments[i])
    IN /\ (Found = 0) <=> (\A i \in 1..Len(appointments) : ~Hit(i))
       /\ Found # 0 =>
            /\ Found \in 1..Len(appointments)
            /\ Hit(Found)
            /\ \A j \in 1..(Found - 1) : ~Hit(j)

C8_Witness ==
  /\ Submittable
  /\ Found # 0
  /\ \E j \in (Found + 1)..Len(appointments) :
       /\ SameProfessional(appointments[j])
       /\ Overlaps(form, appointments[j])
       /\ ~IsEdited(appointments[j])
       /\ appointments[j].appointment_date < appointments[Found].appointment_date

\* the selected service of a form, as an index into services (0 if none)
SelectedService(f, svcs) ==
  IF f.service_id = 0 THEN 0 ELSE FindById(svcs, f.service_id)

\* C9: after every step that changes the form's service_id or
\* appointment_date and leaves the modal open with a service of the services
\* list selected, end_date is appointment_date plus that service's duration.
C9_EndFollowsServiceAndStart ==
  [][(/\ isModalOpen'
      /\ \/ form'.service_id # form.service_id
         \/ form'.appointment_date # form.appointment_date
      /\ SelectedService(form', services') # 0)
     => form'.end_date = form'.appointment_date
          + services'[SelectedService(form', services')].duration]_vars

C9_Witness ==
  /\ isModalOpen
  /\ editingAppointment # NoAppointment
  /\ form.appointment_date # Format(editingAppointment.appointment_date)
  /\ form.service_id # editingAppointment.service_id
  /\ SelectedService(form, services) # 0
  /\ form.end_date = form.appointment_date
       + services[SelectedService(form, services)].duration

\* C10: the four fetches are issued together, the page shows only the
\* spinner while one of them is pending, and a submit reaches the conflict
\* check only when all four have completed.
C10_CheckOnlyOnResolvedData ==
  /\ \A r1, r2 \in Resources : (fetch[r1] = "idle") <=> (fetch[r2] = "idle")
  /\ (\E r \in Resources : fetch[r] = "pending") => ~Renders
  /\ Submittable => \A r \in Resources : fetch[r] = "done"

C10_Witness ==
  /\ Submittable
  /\ appointments # <<>>
  /\ \A r \in Resources : fetch[r] = "done"

\* C11: the collection never holds two distinct appointments of one
\* professional whose intervals overlap (A.start < B.end and A.end > B.start),
\* also when submissions are made while earlier store calls are in flight.
C11_NoOverlapInCollection ==
  \A i, j \in 1..Len(appointments) :
    (/\ i # j
     /\ appointments[i].professional_id = appointments[j].professional_id)
    => ~(/\ appointments[i].appointment_date < appointments[j].end_date
         /\ appointments[i].end_date > appointments[j].appointment_date)

\* C12: while the modal is open in edit mode, the appointment being edited
\* is still in the collection (a successful delete started from the edit
\* modal closes it and clears editingAppointment), so no update can be
\* submitted for an appointment that has been deleted.
C12_EditedAppointmentPresent ==
  (isModalOpen /\ editingAppointment # NoAppointment)
    => HasIdIn(appointments, editingAppointment.id)

\* the field values handleOpenModal(appointment) resets the form to
OpenedForm(a) ==
  [client_id |-> a.client_id,
   professional_id |-> a.professional_id,
   service_id |-> a.service_id,
   price |-> ToMajor(a.price),
   appointment_date |-> Format(a.appointment_date),
   end_date |-> Format(a.end_date)]

\* the form is as opening the edited appointment left it: no field changed
FormAsOpened ==
  /\ editingAppointment # NoAppointment
  /\ form = WatcherEffect(defaultFormValues, services,
                          OpenedForm(editingAppointment), services)

\* C13: a submit of an edit form in which no field was changed hands
\* updateAppointment the stored start, end and price of the appointment.
C13_UnchangedEditIsNoOp ==
  [][(/\ onSubmit
      /\ FormAsOpened
      /\ Len(pending') = Len(pending) + 1)
     => LET u == pending'[Len(pending')]
        IN /\ u.op = "update"
           /\ u.arg.appointment_date = editingAppointment.appointment_date
           /\ u.arg.end_date = editingAppointment.end_date
           /\ u.arg.price = editingAppointment.price]_vars

====
